---- MODULE Spec2Model ----
(***************************************************************************)
(* Model of python-inotify's C extension module _inotify                   *)
(* (src/inotify/_inotify.c and the earlier variant src/unnamed/part_000).  *)
(*                                                                         *)
(* The extension is a thin wrapper: init(), add_watch() and remove_watch() *)
(* each parse their arguments, make one inotify system call, turn a -1     *)
(* into a Python exception and build the Python result.  The state the     *)
(* wrappers act on lives in the kernel: the descriptor table, and for each *)
(* inotify instance its watches, its watch-id allocator and its event      *)
(* queue.  The kernel side is modelled as far as the wrappers can observe  *)
(* it (inotify(7), inotify_add_watch(2), inotify_rm_watch(2)).             *)
(*                                                                         *)
(* A mask (uint32_t) is represented by the set of its bit positions 0..31, *)
(* so that bitwise OR is \cup and bitwise AND is \cap.                     *)
(***************************************************************************)
EXTENDS Integers, Sequences, FiniteSets, TLC

\* ------------------------------------------------------------------ bounds

\* Number of descriptor slots the process may use for inotify instances.
MaxFds == 2
\* Largest watch id an instance hands out before its allocator wraps.
MaxWd == 2
\* Number of calls and environment events in one behaviour.
MaxCalls == 5
\* Number of object allocations that may fail while constants are exported.
MaxAllocFail == 1

\* --------------------------------------------------- <sys/inotify.h> masks

IN_ACCESS == {0}
IN_MODIFY == {1}
IN_ATTRIB == {2}
IN_CLOSE_WRITE == {3}
IN_CLOSE_NOWRITE == {4}
IN_OPEN == {5}
IN_MOVED_FROM == {6}
IN_MOVED_TO == {7}
IN_CREATE == {8}
IN_DELETE == {9}
IN_DELETE_SELF == {10}
IN_MOVE_SELF == {11}
IN_UNMOUNT == {13}
IN_Q_OVERFLOW == {14}
IN_IGNORED == {15}
IN_CLOSE == IN_CLOSE_WRITE \cup IN_CLOSE_NOWRITE
IN_MOVE == IN_MOVED_FROM \cup IN_MOVED_TO
IN_ONLYDIR == {24}
IN_DONT_FOLLOW == {25}
IN_MASK_ADD == {29}
IN_ISDIR == {30}
IN_ONESHOT == {31}
IN_ALL_EVENTS ==
    IN_ACCESS \cup IN_MODIFY \cup IN_ATTRIB \cup IN_CLOSE_WRITE
    \cup IN_CLOSE_NOWRITE \cup IN_OPEN \cup IN_MOVED_FROM \cup IN_MOVED_TO
    \cup IN_CREATE \cup IN_DELETE \cup IN_DELETE_SELF \cup IN_MOVE_SELF

\* ------------------------------------------------------------ define_consts

\* A second definition that exports a component under the aggregate's name.
Redefined_slip ==
    << <<"IN_CLOSE", IN_CLOSE_WRITE>>, <<"IN_MOVE", IN_MOVE>> >>

\* IN_CLOSE and IN_MOVE are each defined a second time (lines 203-208).
Redefined ==
    << <<"IN_CLOSE", IN_CLOSE>>, <<"IN_MOVE", IN_MOVE>> >>

\* The calls define_consts makes, in source order: <<name, value>>.
ConstTable ==
    << <<"IN_ACCESS", IN_ACCESS>>, <<"IN_MODIFY", IN_MODIFY>>,
       <<"IN_ATTRIB", IN_ATTRIB>>, <<"IN_CLOSE_WRITE", IN_CLOSE_WRITE>>,
       <<"IN_CLOSE_NOWRITE", IN_CLOSE_NOWRITE>>, <<"IN_CLOSE", IN_CLOSE>>,
       <<"IN_OPEN", IN_OPEN>>, <<"IN_MOVED_FROM", IN_MOVED_FROM>>,
       <<"IN_MOVED_TO", IN_MOVED_TO>>, <<"IN_MOVE", IN_MOVE>>,
       <<"IN_CREATE", IN_CREATE>>, <<"IN_DELETE", IN_DELETE>>,
       <<"IN_DELETE_SELF", IN_DELETE_SELF>>, <<"IN_MOVE_SELF", IN_MOVE_SELF>>,
       <<"IN_UNMOUNT", IN_UNMOUNT>>, <<"IN_Q_OVERFLOW", IN_Q_OVERFLOW>>,
       <<"IN_IGNORED", IN_IGNORED>> >>
    \o Redefined \o
    << <<"IN_ONLYDIR", IN_ONLYDIR>>, <<"IN_DONT_FOLLOW", IN_DONT_FOLLOW>>,
       <<"IN_MASK_ADD", IN_MASK_ADD>>, <<"IN_ISDIR", IN_ISDIR>>,
       <<"IN_ONESHOT", IN_ONESHOT>>, <<"IN_ALL_EVENTS", IN_ALL_EVENTS>> >>

\* ------------------------------------------------------------------- state

\* Descriptor numbers: 0, 1 and 2 are the standard streams.
FDs == 3 .. (2 + MaxFds)
WDs == 1 .. MaxWd
\* "/mnt/y" lives on a mounted filesystem; "/no/such/path" never exists.
Paths == {"/tmp/x", "/mnt/y", "/no/such/path"}
OnMount == {"/mnt/y"}
\* The mask arguments callers pass: two event classes, an additive
\* registration, and the empty mask.
Masks == {IN_MODIFY, IN_ATTRIB, IN_ATTRIB \cup IN_MASK_ADD, {}}

VARIABLES
    open,       \* kernel: open[fd] iff fd is an open inotify instance
    watches,    \* kernel: watches[fd][wd], a watch record or NoWatch
    last_wd,    \* kernel: the watch id each instance allocated last
    queue,      \* kernel: each instance's unread event queue
    exists,     \* filesystem: the paths that have not been unlinked
    mounted,    \* filesystem: whether the filesystem of OnMount is mounted
    last,       \* the extension call the latest step made (NoCall if the
                \* latest step was not a call): arguments and outcome
    prior,      \* history: the watch add_watch's path had before that call
    ncalls,     \* number of steps taken
    everClosed, \* history: descriptor numbers that were closed at some time
    issued,     \* history: issued[fd], the watch ids add_watch returned on fd
    dict,       \* module dictionary filled by define_consts
    idx,        \* define_consts: index in ConstTable of the next call
    allocFails  \* define_consts: allocations that have failed so far

vars == <<open, watches, last_wd, queue, exists, mounted, last, prior, ncalls,
          everClosed, issued, dict, idx, allocFails>>

kvars == <<open, watches, last_wd, queue>>
fsvars == <<exists, mounted>>
constvars == <<dict, idx, allocFails>>

NoWatch == [path |-> "", mask |-> {}]

\* ------------------------------------------------- CPython objects, errors

\* A PyObject* a wrapper returns: NULL, a Python int, or None.
NULL == [kind |-> "NULL", val |-> 0]
Py_None == [kind |-> "None", val |-> 0]
\* PyInt_FromLong: a new int object, or NULL (with MemoryError set) when the
\* allocation fails.
PyInt_FromLong(n, allocOk) ==
    IF allocOk THEN [kind |-> "Int", val |-> n] ELSE NULL

\* The interpreter's error indicator after a call.
NoErr == [type |-> "none", errno |-> "", filename |-> ""]
MemoryError == [type |-> "MemoryError", errno |-> "", filename |-> ""]
\* PyArg_ParseTuple failing raises TypeError.
TypeError == [type |-> "TypeError", errno |-> "", filename |-> ""]
\* OSError(errno, strerror)
PyErr_SetFromErrno(errno) ==
    [type |-> "OSError", errno |-> errno, filename |-> ""]
\* The error raised without the file name, as PyErr_SetFromErrno would.
PyErr_WithoutFilename(errno, path) ==
    [type |-> "OSError", errno |-> errno, filename |-> ""]

\* OSError(errno, strerror, filename)
PyErr_SetFromErrnoWithFilename(errno, path) ==
    [type |-> "OSError", errno |-> errno, filename |-> path]

\* ------------------------------------------------------------------ kernel

Min(S) == CHOOSE x \in S : \A y \in S : x <= y

\* The kernel state of the inotify instances, as one value the system calls
\* transform.
K == [watches |-> watches, last_wd |-> last_wd, queue |-> queue]

NoWatches == [wd \in WDs |-> NoWatch]
Live(k, fd) == {wd \in WDs : k.watches[fd][wd] # NoWatch}
PathExists(p) == exists[p] /\ (p \in OnMount => mounted)

\* The bits of a mask argument that select events (inotify_arg_to_mask).
ArgToMask(mask) == mask \cap (IN_ALL_EVENTS \cup IN_ONESHOT)
\* Every bit inotify_add_watch accepts.
ALL_INOTIFY_BITS ==
    IN_ALL_EVENTS \cup IN_ONLYDIR \cup IN_DONT_FOLLOW \cup IN_MASK_ADD
    \cup IN_ONESHOT

\* The watch id a new watch gets: ids are handed out in increasing order
\* after the id allocated last, wrapping to the lowest free id; -1 when the
\* instance has no free id.
AllocWd(used, lastId) ==
    LET above == {w \in WDs : w > lastId /\ w \notin used}
        below == {w \in WDs : w <= lastId /\ w \notin used}
    IN  IF above # {} THEN Min(above)
        ELSE IF below # {} THEN Min(below)
        ELSE -1

\* inotify_init(2): the lowest free descriptor number, or -1 (EMFILE).
inotify_init ==
    LET free == {fd \in FDs : ~open[fd]}
    IN  IF free = {} THEN [r |-> -1, errno |-> "EMFILE"]
        ELSE [r |-> Min(free), errno |-> ""]

\* inotify_add_watch(2) on kernel state k: [r, errno, k].
inotify_add_watch(k, fd, path, mask) ==
    IF mask \cap ALL_INOTIFY_BITS = {}
    THEN [r |-> -1, errno |-> "EINVAL", k |-> k]
    ELSE IF ~open[fd]
    THEN [r |-> -1, errno |-> "EBADF", k |-> k]
    ELSE IF ~PathExists(path)
    THEN [r |-> -1, errno |-> "ENOENT", k |-> k]
    ELSE IF \E wd \in Live(k, fd) : k.watches[fd][wd].path = path
    THEN LET wd == CHOOSE w \in Live(k, fd) : k.watches[fd][w].path = path
             old == k.watches[fd][wd].mask
             new == IF IN_MASK_ADD \subseteq mask
                    THEN old \cup ArgToMask(mask)
                    ELSE ArgToMask(mask)
         IN  [r |-> wd, errno |-> "",
              k |-> [k EXCEPT !.watches[fd][wd].mask = new]]
    ELSE LET wd == AllocWd(Live(k, fd), k.last_wd[fd])
         IN  IF wd = -1
             THEN [r |-> -1, errno |-> "ENOSPC", k |-> k]
             ELSE [r |-> wd, errno |-> "",
                   k |-> [k EXCEPT
                            !.watches[fd][wd] =
                                [path |-> path, mask |-> ArgToMask(mask)],
                            !.last_wd[fd] = wd]]

\* inotify_rm_watch(2) on kernel state k: [r, errno, k].  Removing a watch
\* queues IN_IGNORED for it on the instance.
inotify_rm_watch(k, fd, wd) ==
    IF ~open[fd]
    THEN [r |-> -1, errno |-> "EBADF", k |-> k]
    ELSE IF wd \notin Live(k, fd)
    THEN [r |-> -1, errno |-> "EINVAL", k |-> k]
    ELSE [r |-> 0, errno |-> "",
          k |-> [k EXCEPT
                   !.watches[fd][wd] = NoWatch,
                   !.queue[fd] = Append(@, [wd |-> wd, mask |-> IN_IGNORED])]]

\* -------------------------------------------------------------- extension

\* The part of init after argument parsing (lines 12-31):
\* [ret, err, fd, opened].
init_call(allocOk) ==
    LET s == inotify_init
        ret == PyInt_FromLong(s.r, allocOk)
    IN  IF s.r = -1
        THEN [ret |-> NULL, err |-> PyErr_SetFromErrno(s.errno),
              fd |-> -1, opened |-> FALSE]
        ELSE IF ret = NULL
        THEN \* bail: close(fd)
             [ret |-> NULL, err |-> MemoryError, fd |-> s.r, opened |-> FALSE]
        ELSE [ret |-> ret, err |-> NoErr, fd |-> s.r, opened |-> TRUE]

\* add_watch after the system call, with the wd == -1 test left out: the
\* -1 is returned as a watch id.
add_watch_outcome_unchecked(a, fd, path, allocOk) ==
    LET ret == PyInt_FromLong(a.r, allocOk)
    IN  IF ret = NULL
        THEN [ret |-> NULL, err |-> MemoryError,
              k |-> IF a.r # -1 THEN inotify_rm_watch(a.k, fd, a.r).k ELSE a.k]
        ELSE [ret |-> ret, err |-> NoErr, k |-> a.k]

\* add_watch after the system call, with the "goto done" left out: the
\* success path falls through to bail and removes the watch it returns.
add_watch_outcome_fallthrough(a, fd, path, allocOk) ==
    LET ret == PyInt_FromLong(a.r, allocOk)
    IN  IF a.r = -1
        THEN [ret |-> NULL,
              err |-> PyErr_SetFromErrnoWithFilename(a.errno, path),
              k |-> a.k]
        ELSE IF ret = NULL
        THEN [ret |-> NULL, err |-> MemoryError,
              k |-> inotify_rm_watch(a.k, fd, a.r).k]
        ELSE [ret |-> ret, err |-> NoErr,
              k |-> inotify_rm_watch(a.k, fd, a.r).k]

\* add_watch after the system call returned a (lines 53-71): [ret, err, k].
add_watch_outcome(a, fd, path, allocOk) ==
    LET ret == PyInt_FromLong(a.r, allocOk)
    IN  IF a.r = -1
        THEN [ret |-> NULL,
              err |-> PyErr_SetFromErrnoWithFilename(a.errno, path),
              k |-> a.k]
        ELSE IF ret = NULL
        THEN \* bail: wd != -1, inotify_rm_watch(fd, wd)
             [ret |-> NULL, err |-> MemoryError,
              k |-> inotify_rm_watch(a.k, fd, a.r).k]
        ELSE [ret |-> ret, err |-> NoErr, k |-> a.k]

\* add_watch passing the mask with IN_MASK_ADD always set.
add_watch_call_always_additive(k, fd, path, mask, allocOk) ==
    add_watch_outcome(inotify_add_watch(k, fd, path, mask \cup IN_MASK_ADD),
                      fd, path, allocOk)

\* add_watch passing only the event bits of the mask.
add_watch_call_events_only(k, fd, path, mask, allocOk) ==
    add_watch_outcome(inotify_add_watch(k, fd, path, mask \cap IN_ALL_EVENTS),
                      fd, path, allocOk)

\* The part of add_watch after argument parsing (lines 52-71): [ret, err, k].
add_watch_call(k, fd, path, mask, allocOk) ==
    add_watch_outcome(inotify_add_watch(k, fd, path, mask), fd, path, allocOk)

\* remove_watch with the r == -1 test left out.
remove_watch_call_unchecked(k, fd, wd) ==
    [ret |-> NULL, err |-> NoErr, k |-> inotify_rm_watch(k, fd, wd).k]

\* The part of remove_watch after argument parsing (lines 97-111):
\* [ret, err, k].  ret is initialised to NULL and never assigned: the
\* success path takes a reference to None and returns ret.
remove_watch_call(k, fd, wd) ==
    LET b == inotify_rm_watch(k, fd, wd)
    IN  IF b.r = -1
        THEN [ret |-> NULL, err |-> PyErr_SetFromErrno(b.errno), k |-> b.k]
        ELSE [ret |-> NULL, err |-> NoErr, k |-> b.k]

\* The record of a call: its name, its arguments and its outcome.
Call(op, fd, path, mask, wd, ret, err) ==
    [op |-> op, fd |-> fd, path |-> path, mask |-> mask, wd |-> wd,
     ret |-> ret, err |-> err]
NoCall == Call("none", 0, "", {}, 0, NULL, NoErr)

\* The watch on path that instance fd holds: [wd, mask], NoPrior if none.
NoPrior == [wd |-> 0, mask |-> {}]
WatchOf(fd, path) ==
    IF \E wd \in WDs : watches[fd][wd].path = path
    THEN LET wd == CHOOSE w \in WDs : watches[fd][w].path = path
         IN  [wd |-> wd, mask |-> watches[fd][wd].mask]
    ELSE NoPrior

Init ==
    /\ open = [fd \in FDs |-> FALSE]
    /\ watches = [fd \in FDs |-> NoWatches]
    /\ last_wd = [fd \in FDs |-> 0]
    /\ queue = [fd \in FDs |-> << >>]
    /\ exists = [p \in Paths |-> p # "/no/such/path"]
    /\ mounted = TRUE
    /\ last = NoCall
    /\ prior = NoPrior
    /\ ncalls = 0
    /\ everClosed = {}
    /\ issued = [fd \in FDs |-> {}]
    /\ dict = [n \in {} |-> {}]
    /\ idx = 1
    /\ allocFails = 0

\* init(): lines 4-32.
InitStep(op) ==
    /\ ncalls < MaxCalls
    /\ ncalls' = ncalls + 1
    /\ \E parsed \in BOOLEAN, allocOk \in BOOLEAN :
         IF ~parsed
         THEN /\ allocOk
              /\ last' = Call(op, 0, "", {}, 0, NULL, TypeError)
              /\ UNCHANGED kvars
         ELSE LET c == init_call(allocOk)
              IN  /\ last' = Call(op, 0, "", {}, 0, c.ret, c.err)
                  /\ open' = IF c.opened THEN [open EXCEPT ![c.fd] = TRUE]
                             ELSE open
                  /\ UNCHANGED <<watches, last_wd, queue>>
    /\ prior' = NoPrior
    /\ UNCHANGED <<fsvars, everClosed, issued, constvars>>

init == InitStep("init")

\* The variant of init in the earlier revision of the file
\* (src/unnamed/part_000): the same steps.
pyinotify_init == InitStep("pyinotify_init")

\* add_watch(fd, path, mask): lines 41-72.
add_watch ==
    /\ ncalls < MaxCalls
    /\ ncalls' = ncalls + 1
    /\ \E parsed \in BOOLEAN, fd \in FDs, path \in Paths, mask \in Masks,
          allocOk \in BOOLEAN :
         IF ~parsed
         THEN /\ allocOk /\ fd = Min(FDs) /\ path = "/tmp/x" /\ mask = {}
              /\ last' = Call("add_watch", 0, "", {}, 0, NULL, TypeError)
              /\ prior' = NoPrior
              /\ UNCHANGED <<watches, last_wd, queue, issued>>
         ELSE LET c == add_watch_call(K, fd, path, mask, allocOk)
              IN  /\ last' = Call("add_watch", fd, path, mask, 0, c.ret, c.err)
                  /\ prior' = WatchOf(fd, path)
                  /\ watches' = c.k.watches
                  /\ last_wd' = c.k.last_wd
                  /\ queue' = c.k.queue
                  /\ issued' = IF c.ret.kind = "Int"
                               THEN [issued EXCEPT ![fd] = @ \cup {c.ret.val}]
                               ELSE issued
    /\ UNCHANGED <<open, fsvars, everClosed, constvars>>

\* remove_watch(fd, wd): lines 87-112.
remove_watch ==
    /\ ncalls < MaxCalls
    /\ ncalls' = ncalls + 1
    /\ \E parsed \in BOOLEAN, fd \in FDs, wd \in WDs :
         IF ~parsed
         THEN /\ fd = Min(FDs) /\ wd = 1
              /\ last' = Call("remove_watch", 0, "", {}, 0, NULL, TypeError)
              /\ UNCHANGED <<watches, last_wd, queue>>
         ELSE LET c == remove_watch_call(K, fd, wd)
              IN  /\ last' = Call("remove_watch", fd, "", {}, wd, c.ret, c.err)
                  /\ watches' = c.k.watches
                  /\ last_wd' = c.k.last_wd
                  /\ queue' = c.k.queue
    /\ prior' = NoPrior
    /\ UNCHANGED <<open, fsvars, everClosed, issued, constvars>>

\* ------------------------------------------------------------ environment

\* The caller closes an instance's descriptor (os.close(fd)): the instance,
\* its watches and its queue are gone and the number is free again.
close(fd) ==
    /\ ncalls < MaxCalls
    /\ ncalls' = ncalls + 1
    /\ open[fd]
    /\ open' = [open EXCEPT ![fd] = FALSE]
    /\ watches' = [watches EXCEPT ![fd] = NoWatches]
    /\ last_wd' = [last_wd EXCEPT ![fd] = 0]
    /\ queue' = [queue EXCEPT ![fd] = << >>]
    /\ everClosed' = everClosed \cup {fd}
    /\ last' = NoCall
    /\ prior' = NoPrior
    /\ UNCHANGED <<fsvars, issued, constvars>>

\* The watches on the paths in gone are dropped: for each, in watch-id
\* order, the events first (none, or IN_UNMOUNT) and then IN_IGNORED.
RECURSIVE DropEvents(_, _, _)
DropEvents(w, wds, first) ==
    IF wds = {} THEN << >>
    ELSE LET wd == Min(wds)
         IN  [i \in 1 .. Len(first) |-> [wd |-> wd, mask |-> first[i]]]
             \o << [wd |-> wd, mask |-> IN_IGNORED] >>
             \o DropEvents(w, wds \ {wd}, first)

DropWatches(gone, first) ==
    /\ watches' = [fd \in FDs |->
                     [wd \in WDs |->
                        IF watches[fd][wd].path \in gone THEN NoWatch
                        ELSE watches[fd][wd]]]
    /\ queue' = [fd \in FDs |->
                   queue[fd] \o
                   DropEvents(watches[fd],
                              {wd \in WDs : watches[fd][wd].path \in gone},
                              first)]

\* The watched file is unlinked: its watches are removed by the kernel.
DeletePath(p) ==
    /\ ncalls < MaxCalls
    /\ ncalls' = ncalls + 1
    /\ PathExists(p)
    /\ exists' = [exists EXCEPT ![p] = FALSE]
    /\ DropWatches({p}, << >>)
    /\ last' = NoCall
    /\ prior' = NoPrior
    /\ UNCHANGED <<open, last_wd, mounted, everClosed, issued, constvars>>

\* The filesystem holding the paths of OnMount is unmounted.
Unmount ==
    /\ ncalls < MaxCalls
    /\ ncalls' = ncalls + 1
    /\ mounted
    /\ mounted' = FALSE
    /\ DropWatches({p \in OnMount : exists[p]}, << IN_UNMOUNT >>)
    /\ last' = NoCall
    /\ prior' = NoPrior
    /\ UNCHANGED <<open, last_wd, exists, everClosed, issued, constvars>>

Next ==
    \/ init
    \/ pyinotify_init
    \/ add_watch
    \/ remove_watch
    \/ \E fd \in FDs : close(fd)
    \/ \E p \in Paths : DeletePath(p)
    \/ Unmount

Spec == Init /\ [][Next]_vars

\* --------------------------------------------------- module initialisation

\* define_const(dict, name, val): lines 136-146.  The item is set only when
\* both objects were allocated.
define_const(d, name, val, pyvalOk, pynameOk) ==
    IF pynameOk /\ pyvalOk THEN (name :> val) @@ d ELSE d

\* One call of define_consts (lines 148-231), in source order.
define_consts ==
    /\ idx <= Len(ConstTable)
    /\ \E pyvalOk \in BOOLEAN, pynameOk \in BOOLEAN :
         LET failed == IF pyvalOk /\ pynameOk THEN 0 ELSE 1
         IN  /\ allocFails + failed <= MaxAllocFail
             /\ allocFails' = allocFails + failed
             /\ dict' = define_const(dict, ConstTable[idx][1],
                                     ConstTable[idx][2], pyvalOk, pynameOk)
    /\ idx' = idx + 1
    /\ UNCHANGED <<kvars, fsvars, last, prior, ncalls, everClosed, issued>>

NextConsts == define_consts

SpecConsts == Init /\ [][NextConsts]_vars

\* ------------------------------------------------------------- properties

\* The step is a call of extension function op.
StepsCall(op) == ncalls' = ncalls + 1 /\ last'.op = op
\* The call's arguments were accepted by PyArg_ParseTuple.
Parsed(c) == c.err # TypeError
\* The call ended with an OSError.
Failed(c) == c.ret = NULL /\ c.err.type = "OSError"
\* The error kinds of the taxonomy, as errno values: a path that does not
\* exist (ENOENT), a watch id the instance does not know (EINVAL).
NotFoundPath(err) == err.type = "OSError" /\ err.errno = "ENOENT"
UnknownWatch(err) == err.type = "OSError" /\ err.errno = "EINVAL"

\* C1: on an open instance, with an existing path and a valid mask,
\* add_watch returns a watch id (unless the instance has no free id or the
\* int cannot be allocated); a remove_watch of that id on that instance
\* made right after returns None with no error; and one more remove_watch
\* of the same id right after a successful one fails with the unknown-watch
\* error.
C1_AddRemoveRemove ==
    [][ /\ ( /\ StepsCall("add_watch") /\ Parsed(last')
             /\ open[last'.fd] /\ PathExists(last'.path) /\ last'.mask # {}
             => \/ last'.ret.kind = "Int"
                \/ last'.err.errno = "ENOSPC"
                \/ last'.err = MemoryError )
        /\ ( /\ last.op = "add_watch" /\ last.ret.kind = "Int"
             /\ StepsCall("remove_watch") /\ Parsed(last')
             /\ last'.fd = last.fd /\ last'.wd = last.ret.val
             => last'.ret = Py_None /\ last'.err = NoErr )
        /\ ( /\ last.op = "remove_watch" /\ last.err = NoErr
             /\ StepsCall("remove_watch") /\ Parsed(last')
             /\ last'.fd = last.fd /\ last'.wd = last.wd
             => last'.ret = NULL /\ UnknownWatch(last'.err) )
      ]_vars

\* C2: a successful add_watch without IN_MASK_ADD on a path the instance
\* already watches returns the existing watch id, leaves exactly one watch
\* for the path, and makes the watch's mask exactly the mask passed.
C2_ReplaceMask ==
    [][ /\ StepsCall("add_watch") /\ last'.ret.kind = "Int"
        /\ last'.mask \cap IN_MASK_ADD = {}
        /\ WatchOf(last'.fd, last'.path) # NoPrior
        => LET fd == last'.fd
               old == WatchOf(fd, last'.path)
           IN  /\ last'.ret.val = old.wd
               /\ {w \in WDs : watches'[fd][w].path = last'.path} = {old.wd}
               /\ watches'[fd][old.wd].mask = last'.mask
      ]_vars

\* C2 witness: a watch registered with IN_MODIFY was registered again with
\* IN_ATTRIB and now has mask IN_ATTRIB.
C2_Witness ==
    /\ last.op = "add_watch" /\ last.ret.kind = "Int"
    /\ last.mask = IN_ATTRIB /\ prior.mask = IN_MODIFY
    /\ prior.wd = last.ret.val
    /\ watches[last.fd][last.ret.val] = [path |-> last.path, mask |-> IN_ATTRIB]

\* C3: a successful add_watch with IN_MASK_ADD on a path the instance
\* already watches keeps the watch id and makes the mask the union of the
\* old mask and the event bits passed; no bit of the old mask is removed.
C3_AdditiveUnion ==
    [][ /\ StepsCall("add_watch") /\ last'.ret.kind = "Int"
        /\ IN_MASK_ADD \subseteq last'.mask
        /\ WatchOf(last'.fd, last'.path) # NoPrior
        => LET fd == last'.fd
               old == WatchOf(fd, last'.path)
           IN  /\ last'.ret.val = old.wd
               /\ watches'[fd][old.wd].mask
                    = old.mask \cup (last'.mask \ IN_MASK_ADD)
               /\ old.mask \subseteq watches'[fd][old.wd].mask
      ]_vars

\* C3 witness: IN_MODIFY then an additive IN_ATTRIB gives IN_MODIFY|IN_ATTRIB.
C3_Witness ==
    /\ last.op = "add_watch" /\ last.ret.kind = "Int"
    /\ last.mask = IN_ATTRIB \cup IN_MASK_ADD /\ prior.mask = IN_MODIFY
    /\ watches[last.fd][last.ret.val].mask = IN_MODIFY \cup IN_ATTRIB

\* C4: add_watch on an open instance, with a valid mask, for a path that
\* does not exist returns no watch id, raises the not-found error carrying
\* the path, and leaves the watches of every instance unchanged.
C4_NoSuchPath ==
    [][ /\ StepsCall("add_watch") /\ Parsed(last')
        /\ open[last'.fd] /\ last'.mask # {} /\ ~PathExists(last'.path)
        => /\ last'.ret = NULL
           /\ NotFoundPath(last'.err)
           /\ last'.err.filename = last'.path
           /\ watches' = watches
      ]_vars

\* C4 witness: add_watch of "/no/such/path" failed on an instance that
\* holds a watch.
C4_Witness ==
    /\ last.op = "add_watch" /\ last.path = "/no/such/path"
    /\ last.ret = NULL /\ NotFoundPath(last.err)
    /\ last.err.filename = "/no/such/path"
    /\ \E wd \in WDs : watches[last.fd][wd] # NoWatch

\* C5 as stated: remove_watch(inst, wd) fails with the unknown-watch error
\* and removes no watch whenever wd was never issued on inst, is no longer
\* registered on inst, or was issued by a different instance.
C5_ForeignIdRejected ==
    [][ /\ StepsCall("remove_watch") /\ Parsed(last')
        /\ \/ last'.wd \notin issued[last'.fd]
           \/ watches[last'.fd][last'.wd] = NoWatch
           \/ \E f \in FDs \ {last'.fd} : last'.wd \in issued[f]
        => /\ Failed(last')
           /\ watches' = watches
      ]_vars

\* C5 amended: on an open instance, remove_watch(inst, wd) fails with the
\* unknown-watch error and changes no watch and no queue whenever the
\* number wd is not a live watch id of inst; when the number is a live watch
\* id of inst the call removes exactly that watch of inst, whichever
\* instance the caller got the number from.
C5_UnknownNumberRejected ==
    [][ /\ StepsCall("remove_watch") /\ Parsed(last') /\ open[last'.fd]
        => IF watches[last'.fd][last'.wd] = NoWatch
           THEN /\ last'.ret = NULL /\ UnknownWatch(last'.err)
                /\ watches' = watches /\ queue' = queue
           ELSE /\ last'.err = NoErr
                /\ watches' = [watches EXCEPT ![last'.fd][last'.wd] = NoWatch]
      ]_vars

\* C5 witness: a number that is a live watch id on the neighbour only was
\* rejected.
C5_Witness ==
    /\ last.op = "remove_watch" /\ UnknownWatch(last.err)
    /\ open[last.fd]
    /\ \E f \in FDs \ {last.fd} :
         last.wd \in issued[f] /\ watches[f][last.wd] # NoWatch

\* C6 as stated: once a descriptor has been closed, every later add_watch
\* or remove_watch call that passes it fails and changes no watch.
C6_ClosedStaysInvalid ==
    [][ /\ (StepsCall("add_watch") \/ StepsCall("remove_watch"))
        /\ Parsed(last') /\ last'.fd \in everClosed
        => /\ last'.ret = NULL /\ last'.err # NoErr
           /\ watches' = watches
      ]_vars

\* C6 amended: an add_watch or remove_watch call that passes a descriptor
\* number that is not open (closed, and not handed out again by a later
\* init) fails with EBADF (EINVAL for an add_watch with an empty mask) and
\* changes no watch and no queue of any instance.
C6_ClosedFdFails ==
    [][ /\ (StepsCall("add_watch") \/ StepsCall("remove_watch"))
        /\ Parsed(last') /\ ~open[last'.fd]
        => /\ Failed(last')
           /\ last'.err.errno
                = IF last'.op = "add_watch" /\ last'.mask = {}
                  THEN "EINVAL" ELSE "EBADF"
           /\ watches' = watches /\ queue' = queue
      ]_vars

\* C6 witness: a call on a closed descriptor failed with EBADF while a
\* later instance holds a watch.
C6_Witness ==
    /\ last.op \in {"add_watch", "remove_watch"}
    /\ last.fd \in everClosed /\ ~open[last.fd]
    /\ Failed(last) /\ last.err.errno = "EBADF"
    /\ \E f \in FDs, wd \in WDs : open[f] /\ watches[f][wd] # NoWatch

\* C7: a call that got past argument parsing and object allocation ends
\* either with a result and no error, or with no result and one OSError
\* that carries the errno and the context: the path for add_watch, the
\* watch id for remove_watch.
C7_OneStructuredError ==
    last.op # "none" /\ last.err \notin {TypeError, MemoryError}
    => \/ last.ret # NULL /\ last.err = NoErr
       \/ /\ last.ret = NULL
          /\ last.err.type = "OSError" /\ last.err.errno # ""
          /\ last.op = "add_watch" => last.err.filename = last.path
          /\ last.op = "remove_watch" => last.err.filename = ToString(last.wd)

\* C8: when a watch of an instance that stays open stops being registered,
\* the step appends to that instance's queue an IN_IGNORED event carrying
\* the watch's id; a successful add_watch appends nothing to any queue.
C8_RemovalNotifies ==
    [][ /\ \A fd \in FDs, wd \in WDs :
             /\ open[fd] /\ open'[fd]
             /\ watches[fd][wd] # NoWatch /\ watches'[fd][wd] = NoWatch
             => /\ Len(queue'[fd]) > Len(queue[fd])
                /\ SubSeq(queue'[fd], 1, Len(queue[fd])) = queue[fd]
                /\ \E i \in (Len(queue[fd]) + 1) .. Len(queue'[fd]) :
                     queue'[fd][i] = [wd |-> wd, mask |-> IN_IGNORED]
        /\ ( StepsCall("add_watch") /\ last'.ret.kind = "Int"
             => queue' = queue )
      ]_vars

\* C8 witness: an instance's queue holds the notifications of an unmount
\* and of a successful remove_watch.
C8_Witness ==
    /\ last.op = "remove_watch" /\ last.err = NoErr
    /\ queue[last.fd][Len(queue[last.fd])]
         = [wd |-> last.wd, mask |-> IN_IGNORED]
    /\ \E i \in 1 .. (Len(queue[last.fd]) - 2) :
         /\ queue[last.fd][i].mask = IN_UNMOUNT
         /\ queue[last.fd][i + 1]
              = [wd |-> queue[last.fd][i].wd, mask |-> IN_IGNORED]

\* C10: a failed add_watch leaves the watches of every instance as they
\* were, and a failed init leaves no descriptor open that was not open.
C10_FailedCallRollsBack ==
    [][ /\ ( StepsCall("add_watch") /\ last'.ret = NULL => watches' = watches )
        /\ ( (StepsCall("init") \/ StepsCall("pyinotify_init"))
             /\ last'.ret = NULL => open' = open )
      ]_vars

\* ------------------------------------------------ properties of the consts

SingleEventNames ==
    {"IN_ACCESS", "IN_MODIFY", "IN_ATTRIB", "IN_CLOSE_WRITE",
     "IN_CLOSE_NOWRITE", "IN_OPEN", "IN_MOVED_FROM", "IN_MOVED_TO",
     "IN_CREATE", "IN_DELETE", "IN_DELETE_SELF", "IN_MOVE_SELF"}

\* The exported value of aggregate agg is the union of the exported values
\* of parts, when all of them are exported.
AggregateIsUnion(d, agg, parts) ==
    ({agg} \cup parts) \subseteq DOMAIN d
    => d[agg] = UNION {d[n] : n \in parts}

\* C9: in the module dictionary the twelve single-event flags are pairwise
\* disjoint, IN_CLOSE, IN_MOVE and IN_ALL_EVENTS are the unions of their
\* components, and a define_const call for a name already exported leaves
\* its value as it was.
C9_MaskAlgebra ==
    [][ /\ \A a, b \in SingleEventNames \cap DOMAIN dict' :
             a # b => dict'[a] \cap dict'[b] = {}
        /\ \A a \in SingleEventNames \cap DOMAIN dict' : dict'[a] # {}
        /\ AggregateIsUnion(dict', "IN_CLOSE",
                            {"IN_CLOSE_WRITE", "IN_CLOSE_NOWRITE"})
        /\ AggregateIsUnion(dict', "IN_MOVE", {"IN_MOVED_FROM", "IN_MOVED_TO"})
        /\ AggregateIsUnion(dict', "IN_ALL_EVENTS", SingleEventNames)
        /\ \A n \in DOMAIN dict : n \in DOMAIN dict' /\ dict'[n] = dict[n]
      ]_vars

\* C9 witness: define_consts has run to its end, IN_CLOSE was exported by
\* both of its calls, and every constant is exported.
C9_Witness ==
    /\ idx > Len(ConstTable)
    /\ allocFails = 0
    /\ DOMAIN dict = {ConstTable[i][1] : i \in 1 .. Len(ConstTable)}
    /\ dict["IN_CLOSE"] = {3, 4}

====
